---- MODULE Spec2Model ----
(***************************************************************************)
(* Model of the gomoji emoji-format converter: the catalog                 *)
(* (emojiMappings), the four reverse indices built by init() in            *)
(* mappings.go, the resolver findEmojiName and the public operations       *)
(* Transform, TransformText, GetEmojiInfo, IsSupported and                 *)
(* GetSupportedEmojis.                                                     *)
(*                                                                         *)
(* A Go string is modelled as a tuple of characters (code points); the     *)
(* empty tuple << >> is the empty string "".  A Go map[string]T is a       *)
(* function whose DOMAIN is the set of keys present.                       *)
(***************************************************************************)
EXTENDS Integers, Sequences, FiniteSets, TLC

\* ------------------------------------------------------------------------
\* Bounds of the model
\* ------------------------------------------------------------------------

\* Largest number of records in a catalog.
MaxRecords == 2

\* Number of white-space characters put on each side of an input.
MaxPad == 1

\* Largest number of pieces a text given to TransformText is made of.
MaxParts == 2

\* Number of threads that call the package at the same time.
MaxThreads == 2

\* ------------------------------------------------------------------------
\* Characters
\* ------------------------------------------------------------------------

\* The literal variation selector U+FE0F, one character.
VS16 == "U+FE0F"

\* Two emoji code points, one character each.
Smile == "U+1F604"

Heart == "U+2764"

\* Characters that strings.TrimSpace removes.
WhiteSpace == {" ", "\t"}

\* ------------------------------------------------------------------------
\* Go's strings package, on tuples of characters
\* ------------------------------------------------------------------------

\* s[i..] starts with p (i is 1-based).
MatchAt(s, p, i) ==
    /\ i >= 1
    /\ i + Len(p) - 1 <= Len(s)
    /\ \A k \in 1..Len(p) : s[i + k - 1] = p[k]

RECURSIVE IndexFrom(_, _, _)
\* The first position from i on at which p occurs in s; 0 when there is none.
IndexFrom(s, p, i) ==
    IF i + Len(p) - 1 > Len(s) THEN 0
    ELSE IF MatchAt(s, p, i) THEN i
    ELSE IndexFrom(s, p, i + 1)

\* strings.Index, 1-based; 0 when p does not occur in s.
Index(s, p) == IndexFrom(s, p, 1)

\* strings.Contains(s, p)
Contains(s, p) == Index(s, p) # 0

\* strings.HasSuffix(s, p)
HasSuffix(s, p) == Len(p) <= Len(s) /\ MatchAt(s, p, Len(s) - Len(p) + 1)

\* strings.Replace(s, old, new, 1): only the first occurrence is replaced.
ReplaceFirst(s, old, new) ==
    LET i == Index(s, old)
    IN  IF i = 0 THEN s
        ELSE SubSeq(s, 1, i - 1) \o new \o SubSeq(s, i + Len(old), Len(s))

RECURSIVE TrimLeft(_)
\* Leading white space removed.
TrimLeft(s) ==
    IF s # << >> /\ Head(s) \in WhiteSpace THEN TrimLeft(Tail(s)) ELSE s

RECURSIVE TrimRight(_)
\* Trailing white space removed.
TrimRight(s) ==
    IF s # << >> /\ s[Len(s)] \in WhiteSpace
    THEN TrimRight(SubSeq(s, 1, Len(s) - 1))
    ELSE s

\* strings.TrimSpace(s): leading and trailing white space removed.
TrimSpace(s) == TrimRight(TrimLeft(s))

\* fmt.Sprintf(":%s:", s)
WrapColons(s) == <<":">> \o s \o <<":">>

\* m[k] = v on a Go map.
MapPut(m, k, v) == [x \in (DOMAIN m) \cup {k} |-> IF x = k THEN v ELSE m[x]]

\* make(map[string]string)
EmptyMap == [x \in {} |-> << >>]

\* ------------------------------------------------------------------------
\* String constants of the source
\* ------------------------------------------------------------------------

\* "&#xfe0f;"
VsEntity == <<"&", "#", "x", "f", "e", "0", "f", ";">>

\* "\\uFE0F"
VsEscape == <<"\\", "u", "F", "E", "0", "F">>

\* "&#x"
EntityPrefix == <<"&", "#", "x">>

\* The literal variation selector as a string.
VsLiteral == <<VS16>>

\* ------------------------------------------------------------------------
\* Format
\* ------------------------------------------------------------------------

FormatEmoji == "emoji"

FormatShortcode == "shortcode"

FormatHTML == "html"

FormatUnicode == "unicode"

ValidFormats == {FormatEmoji, FormatShortcode, FormatHTML, FormatUnicode}

\* Format is a string type: any other string can be passed as well.
Formats == ValidFormats \cup {"invalid_format"}

\* ------------------------------------------------------------------------
\* The catalog (emojiMappings): the data file of the repository
\* ------------------------------------------------------------------------

\* "&#x<hex>;" of one code point, lower-case hex as in the data file.
HtmlOfCp(c) ==
    CASE c = Smile -> <<"&", "#", "x", "1", "f", "6", "0", "4", ";">>
      [] c = Heart -> <<"&", "#", "x", "2", "7", "6", "4", ";">>
      [] c = VS16  -> VsEntity

\* "\\U########" of one code point; the variation selector is "\\uFE0F".
EscapeOfCp(c) ==
    CASE c = Smile -> <<"\\", "U", "0", "0", "0", "1", "F", "6", "0", "4">>
      [] c = Heart -> <<"\\", "U", "0", "0", "0", "0", "2", "7", "6", "4">>
      [] c = VS16  -> VsEscape

RECURSIVE HtmlOf(_)
\* The HTML field of a code-point sequence: its entities concatenated.
HtmlOf(cps) ==
    IF cps = << >> THEN << >> ELSE HtmlOfCp(Head(cps)) \o HtmlOf(Tail(cps))

RECURSIVE EscapeOf(_)
\* The Unicode field of a code-point sequence: its escapes concatenated.
EscapeOf(cps) ==
    IF cps = << >> THEN << >> ELSE EscapeOfCp(Head(cps)) \o EscapeOf(Tail(cps))

\* type Mapping struct: the four fields denote the same code points.
Mapping(cps, shortcode) ==
    [Emoji |-> cps, Shortcode |-> shortcode,
     HTML |-> HtmlOf(cps), Unicode |-> EscapeOf(cps)]

\* The zero value of Mapping.
ZeroMapping ==
    [Emoji |-> << >>, Shortcode |-> << >>, HTML |-> << >>, Unicode |-> << >>]

\* Canonical names a catalog may use.
NamePool == {<<"a">>, <<"b">>, <<"a", "2">>}

\* Shortcodes a catalog may use; a record's shortcode may differ from
\* its name wrapped in colons, and one of them wraps the text of an entity.
ShortcodePool ==
    {WrapColons(<<"a">>), WrapColons(<<"a", "2">>), WrapColons(HtmlOfCp(Heart))}

\* Code-point sequences a catalog may use: a plain emoji, the same emoji
\* with a trailing variation selector, the selector alone, and a sequence
\* that holds the selector twice.
CpSeqPool ==
    {<<Heart>>, <<Heart, VS16>>, <<VS16>>, <<Heart, VS16, Smile, VS16>>}

MappingPool == {Mapping(cps, sc) : cps \in CpSeqPool, sc \in ShortcodePool}

\* The catalogs: one to MaxRecords records keyed by name, all four fields
\* non-empty, no two records of the same emoji or the same shortcode.
Catalogs ==
    UNION {
        {m \in [N -> MappingPool] :
            \A n1, n2 \in N :
                n1 # n2 => /\ m[n1].Emoji # m[n2].Emoji
                           /\ m[n1].Shortcode # m[n2].Shortcode}
        : N \in {S \in SUBSET NamePool : Cardinality(S) \in 1..MaxRecords}}

\* The catalogs TransformText is exercised on: those whose shortcodes
\* follow the convention ":<name>:" and whose characters are the plain
\* emoji, the emoji with the variation selector, or the selector alone.
TextCatalogs ==
    {m \in Catalogs :
        \A n \in DOMAIN m :
            /\ m[n].Shortcode = WrapColons(n)
            /\ m[n].Emoji \in {<<Heart>>, <<Heart, VS16>>, <<VS16>>}}

\* ------------------------------------------------------------------------
\* Inputs of the operations
\* ------------------------------------------------------------------------

\* The trailing variation-selector entity written as the literal.
TrailingLiteral(html) ==
    IF HasSuffix(html, VsEntity)
    THEN SubSeq(html, 1, Len(html) - Len(VsEntity)) \o VsLiteral
    ELSE html

\* Every representation of every record a catalog may hold, with the
\* base, hybrid and colon-less variants, the entity strings with the first
\* or the last variation-selector entity written as the literal, and
\* strings of no catalog.
InputCores ==
    LET htmls   == {HtmlOf(c) : c \in CpSeqPool}
        bases   == {ReplaceFirst(h, VsEntity, << >>) : h \in htmls}
        firsts  == {ReplaceFirst(h, VsEntity, VsLiteral) : h \in htmls}
        escapes == {EscapeOf(c) : c \in CpSeqPool}
    IN  NamePool \cup ShortcodePool \cup CpSeqPool
        \cup htmls \cup bases
        \cup {b \o VsLiteral : b \in bases}
        \cup firsts
        \cup {TrailingLiteral(h) : h \in htmls \cup bases \cup firsts}
        \cup {TrailingLiteral(b) \o VsLiteral : b \in bases}
        \cup escapes
        \cup {ReplaceFirst(e, VsEscape, << >>) : e \in escapes}
        \cup {<< >>, <<"c">>, <<":", "c", ":">>, <<":">>,
              EntityPrefix \o VsLiteral}

\* n white-space characters c.
Pad(n, c) == [i \in 1..n |-> c]

\* The inputs: every core as it is, and with MaxPad characters of white
\* space on each side.
Inputs ==
    InputCores \cup {Pad(MaxPad, " ") \o c \o Pad(MaxPad, "\t") : c \in InputCores}

\* The pieces a text is made of: the two characters, a letters-only and a
\* digit-bearing shortcode, the two entities, an escape sequence, a
\* separator and an opened shortcode.
TextParts ==
    {<<Heart>>, VsLiteral,
     WrapColons(<<"a">>), WrapColons(<<"a", "2">>),
     HtmlOfCp(Heart), VsEntity,
     EscapeOfCp(Heart),
     <<" ">>, <<":", "c">>}

RECURSIVE TextsOf(_)
\* The texts of at most n pieces.
TextsOf(n) ==
    IF n = 0 THEN {<< >>}
    ELSE LET shorter == TextsOf(n - 1)
         IN  shorter \cup {p \o t : p \in TextParts, t \in shorter}

\* Two representations of catalog records (a character, a shortcode or
\* the HTML) with a space between them, as in "Hello <emoji> :wink: ...".
MixedTexts ==
    LET items == {<<Heart>>, <<Heart, VS16>>, VsLiteral,
                  WrapColons(<<"a">>), WrapColons(<<"a", "2">>),
                  HtmlOf(<<Heart>>), HtmlOf(<<Heart, VS16>>), VsEntity}
    IN  {x \o <<" ">> \o y : x, y \in items}

\* The texts given to TransformText.
Texts == TextsOf(MaxParts) \cup MixedTexts

\* ------------------------------------------------------------------------
\* State
\* ------------------------------------------------------------------------

VARIABLES
    emojiMappings,    \* the catalog: name -> Mapping
    emojiToName,      \* reverse index: character -> name
    shortcodeToName,  \* reverse index: shortcode -> name
    htmlToName,       \* reverse index: HTML entities -> name
    unicodeToName,    \* reverse index: escape sequence -> name
    pending,          \* names the range loop of init() has not visited yet
    call,             \* the last public operation called, with its arguments
    ret               \* what that operation returned

vars == <<emojiMappings, emojiToName, shortcodeToName, htmlToName,
          unicodeToName, pending, call, ret>>

indices == <<emojiToName, shortcodeToName, htmlToName, unicodeToName>>

\* ------------------------------------------------------------------------
\* Errors (the message each fmt.Errorf starts with)
\* ------------------------------------------------------------------------

ErrNil == "nil"

ErrInvalidFormat == "invalid target format"

ErrNotFound == "emoji not found or not supported"

ErrMappingNotFound == "emoji mapping not found"

ErrUnexpectedFormat == "unexpected format"

ErrInfoNotFound == "emoji not found"

\* ------------------------------------------------------------------------
\* findEmojiName
\* ------------------------------------------------------------------------

\* findEmojiStep with the colon-wrapping retry tried first, before the
\* catalog names.
findEmojiStep_RetryFirst(input) ==
    LET in         == TrimSpace(input)
        normalized == ReplaceFirst(in, VsLiteral, VsEntity)
        wrapped    == WrapColons(in)
    IN  IF wrapped \in DOMAIN shortcodeToName
            THEN [step |-> 7, name |-> shortcodeToName[wrapped]]
        ELSE IF in \in DOMAIN emojiMappings
            THEN [step |-> 1, name |-> in]
        ELSE IF in \in DOMAIN emojiToName
            THEN [step |-> 2, name |-> emojiToName[in]]
        ELSE IF in \in DOMAIN shortcodeToName
            THEN [step |-> 3, name |-> shortcodeToName[in]]
        ELSE IF in \in DOMAIN htmlToName
            THEN [step |-> 4, name |-> htmlToName[in]]
        ELSE IF /\ Contains(in, EntityPrefix)
                /\ HasSuffix(in, VsLiteral)
                /\ normalized \in DOMAIN htmlToName
            THEN [step |-> 5, name |-> htmlToName[normalized]]
        ELSE IF in \in DOMAIN unicodeToName
            THEN [step |-> 6, name |-> unicodeToName[in]]
        ELSE [step |-> 8, name |-> << >>]

\* findEmojiStep with the colon-less form accepted by the shortcode step,
\* before the HTML index is consulted.
findEmojiStep_ColonlessAtStep3(input) ==
    LET in         == TrimSpace(input)
        normalized == ReplaceFirst(in, VsLiteral, VsEntity)
        wrapped    == WrapColons(in)
    IN  IF in \in DOMAIN emojiMappings
            THEN [step |-> 1, name |-> in]
        ELSE IF in \in DOMAIN emojiToName
            THEN [step |-> 2, name |-> emojiToName[in]]
        ELSE IF in \in DOMAIN shortcodeToName
            THEN [step |-> 3, name |-> shortcodeToName[in]]
        ELSE IF wrapped \in DOMAIN shortcodeToName
            THEN [step |-> 3, name |-> shortcodeToName[wrapped]]
        ELSE IF in \in DOMAIN htmlToName
            THEN [step |-> 4, name |-> htmlToName[in]]
        ELSE IF /\ Contains(in, EntityPrefix)
                /\ HasSuffix(in, VsLiteral)
                /\ normalized \in DOMAIN htmlToName
            THEN [step |-> 5, name |-> htmlToName[normalized]]
        ELSE IF in \in DOMAIN unicodeToName
            THEN [step |-> 6, name |-> unicodeToName[in]]
        ELSE [step |-> 8, name |-> << >>]

\* findEmojiStep with the colon-wrapping retry made on the input as
\* given, not on the trimmed input.
findEmojiStep_RetryUntrimmed(input) ==
    LET in         == TrimSpace(input)
        normalized == ReplaceFirst(in, VsLiteral, VsEntity)
        wrapped    == WrapColons(input)
    IN  IF in \in DOMAIN emojiMappings
            THEN [step |-> 1, name |-> in]
        ELSE IF in \in DOMAIN emojiToName
            THEN [step |-> 2, name |-> emojiToName[in]]
        ELSE IF in \in DOMAIN shortcodeToName
            THEN [step |-> 3, name |-> shortcodeToName[in]]
        ELSE IF in \in DOMAIN htmlToName
            THEN [step |-> 4, name |-> htmlToName[in]]
        ELSE IF /\ Contains(in, EntityPrefix)
                /\ HasSuffix(in, VsLiteral)
                /\ normalized \in DOMAIN htmlToName
            THEN [step |-> 5, name |-> htmlToName[normalized]]
        ELSE IF in \in DOMAIN unicodeToName
            THEN [step |-> 6, name |-> unicodeToName[in]]
        ELSE IF wrapped \in DOMAIN shortcodeToName
            THEN [step |-> 7, name |-> shortcodeToName[wrapped]]
        ELSE [step |-> 8, name |-> << >>]

\* The resolver with the number of the step that answered (8: none did).
findEmojiStep(input) ==
    LET in         == TrimSpace(input)
        normalized == ReplaceFirst(in, VsLiteral, VsEntity)
        wrapped    == WrapColons(in)
    IN  IF in \in DOMAIN emojiMappings
            THEN [step |-> 1, name |-> in]
        ELSE IF in \in DOMAIN emojiToName
            THEN [step |-> 2, name |-> emojiToName[in]]
        ELSE IF in \in DOMAIN shortcodeToName
            THEN [step |-> 3, name |-> shortcodeToName[in]]
        ELSE IF in \in DOMAIN htmlToName
            THEN [step |-> 4, name |-> htmlToName[in]]
        ELSE IF /\ Contains(in, EntityPrefix)
                /\ HasSuffix(in, VsLiteral)
                /\ normalized \in DOMAIN htmlToName
            THEN [step |-> 5, name |-> htmlToName[normalized]]
        ELSE IF in \in DOMAIN unicodeToName
            THEN [step |-> 6, name |-> unicodeToName[in]]
        ELSE IF wrapped \in DOMAIN shortcodeToName
            THEN [step |-> 7, name |-> shortcodeToName[wrapped]]
        ELSE [step |-> 8, name |-> << >>]

\* findEmojiName(input): the name, or "" when nothing matches.
findEmojiName(input) == findEmojiStep(input).name

\* ------------------------------------------------------------------------
\* Transform, GetEmojiInfo, IsSupported, GetSupportedEmojis
\* ------------------------------------------------------------------------

\* Project with the HTML and Unicode cases exchanged.
Project_HtmlUnicodeSwapped(mapping, targetFormat) ==
    CASE targetFormat = FormatEmoji     -> [value |-> mapping.Emoji, err |-> ErrNil]
      [] targetFormat = FormatShortcode -> [value |-> mapping.Shortcode, err |-> ErrNil]
      [] targetFormat = FormatHTML      -> [value |-> mapping.Unicode, err |-> ErrNil]
      [] targetFormat = FormatUnicode   -> [value |-> mapping.HTML, err |-> ErrNil]
      [] OTHER -> [value |-> << >>, err |-> ErrUnexpectedFormat]

\* The second switch of Transform: the requested field of the mapping.
Project(mapping, targetFormat) ==
    CASE targetFormat = FormatEmoji     -> [value |-> mapping.Emoji, err |-> ErrNil]
      [] targetFormat = FormatShortcode -> [value |-> mapping.Shortcode, err |-> ErrNil]
      [] targetFormat = FormatHTML      -> [value |-> mapping.HTML, err |-> ErrNil]
      [] targetFormat = FormatUnicode   -> [value |-> mapping.Unicode, err |-> ErrNil]
      [] OTHER -> [value |-> << >>, err |-> ErrUnexpectedFormat]

\* Transform with the target format validated only by the final switch,
\* after the input has been resolved.
Transform_ResolveFirst(input, targetFormat) ==
    LET emojiName == findEmojiName(input)
    IN  IF emojiName = << >>
        THEN [value |-> << >>, err |-> ErrNotFound]
        ELSE IF emojiName \notin DOMAIN emojiMappings
        THEN [value |-> << >>, err |-> ErrMappingNotFound]
        ELSE IF targetFormat \notin ValidFormats
        THEN [value |-> << >>, err |-> ErrInvalidFormat]
        ELSE Project(emojiMappings[emojiName], targetFormat)

\* Transform(input, targetFormat) -> (string, error)
Transform(input, targetFormat) ==
    IF targetFormat \notin ValidFormats
    THEN [value |-> << >>, err |-> ErrInvalidFormat]
    ELSE LET emojiName == findEmojiName(input)
         IN  IF emojiName = << >>
             THEN [value |-> << >>, err |-> ErrNotFound]
             ELSE IF emojiName \notin DOMAIN emojiMappings
             THEN [value |-> << >>, err |-> ErrMappingNotFound]
             ELSE Project(emojiMappings[emojiName], targetFormat)

\* GetEmojiInfo reading the catalog at the input instead of at the name.
GetEmojiInfo_ByInput(input) ==
    LET name == findEmojiName(input)
    IN  IF name = << >>
        THEN [isNil |-> TRUE, mapping |-> ZeroMapping, err |-> ErrInfoNotFound]
        ELSE [isNil |-> FALSE,
              mapping |-> IF input \in DOMAIN emojiMappings
                          THEN emojiMappings[input] ELSE ZeroMapping,
              err |-> ErrNil]

\* GetEmojiInfo(input) -> (*Mapping, error); a missing map key reads as the
\* zero Mapping.
GetEmojiInfo(input) ==
    LET name == findEmojiName(input)
    IN  IF name = << >>
        THEN [isNil |-> TRUE, mapping |-> ZeroMapping, err |-> ErrInfoNotFound]
        ELSE [isNil |-> FALSE,
              mapping |-> IF name \in DOMAIN emojiMappings
                          THEN emojiMappings[name] ELSE ZeroMapping,
              err |-> ErrNil]

\* IsSupported looking the input up among the catalog names only.
IsSupported_NamesOnly(input) == TrimSpace(input) \in DOMAIN emojiMappings

\* IsSupported(input) -> bool
IsSupported(input) == findEmojiName(input) # << >>

\* All orders in which a range loop may visit the keys S.
Orders(S) ==
    {o \in [1..Cardinality(S) -> S] : \A i, j \in DOMAIN o : i # j => o[i] # o[j]}

\* GetSupportedEmojis collecting the names from the HTML index, one for
\* each of its keys.
GetSupportedEmojis_FromIndex ==
    {[i \in DOMAIN o |-> htmlToName[o[i]]] : o \in Orders(DOMAIN htmlToName)}

\* GetSupportedEmojis() -> []string: the slices it may return, one for
\* each order in which the range loop visits the catalog.
GetSupportedEmojis == Orders(DOMAIN emojiMappings)

\* ------------------------------------------------------------------------
\* TransformText
\* ------------------------------------------------------------------------

\* The characters of the class [a-zA-Z_].
Letters ==
    {"a", "b", "c", "d", "e", "f", "g", "h", "i", "j", "k", "l", "m",
     "n", "o", "p", "q", "r", "s", "t", "u", "v", "w", "x", "y", "z",
     "A", "B", "C", "D", "E", "F", "G", "H", "I", "J", "K", "L", "M",
     "N", "O", "P", "Q", "R", "S", "T", "U", "V", "W", "X", "Y", "Z", "_"}

\* The characters of the class [0-9a-fA-F].
HexDigits ==
    {"0", "1", "2", "3", "4", "5", "6", "7", "8", "9",
     "a", "b", "c", "d", "e", "f", "A", "B", "C", "D", "E", "F"}

RECURSIVE ReplaceAllFrom(_, _, _, _)
\* s[i..] with every non-overlapping occurrence of old replaced, left to
\* right; old is not empty.
ReplaceAllFrom(s, old, new, i) ==
    LET j == IndexFrom(s, old, i)
    IN  IF j = 0 THEN SubSeq(s, i, Len(s))
        ELSE SubSeq(s, i, j - 1) \o new
             \o ReplaceAllFrom(s, old, new, j + Len(old))

RECURSIVE Interleave(_, _)
\* new put before every character of s and after the last one.
Interleave(s, new) ==
    IF s = << >> THEN new ELSE new \o <<Head(s)>> \o Interleave(Tail(s), new)

\* strings.ReplaceAll(s, old, new)
ReplaceAll(s, old, new) ==
    IF old = << >> THEN Interleave(s, new) ELSE ReplaceAllFrom(s, old, new, 1)

RECURSIVE ClassEnd(_, _, _)
\* The first position from i on whose character is not of the class;
\* Len(s) + 1 when there is none.
ClassEnd(s, class, i) ==
    IF i > Len(s) \/ s[i] \notin class THEN i ELSE ClassEnd(s, class, i + 1)

\* The shortcode pattern taking digits between the colons as well.
ShortcodeEnd_WithDigits(s, i) ==
    IF i <= Len(s) /\ s[i] = ":"
    THEN LET j == ClassEnd(s, Letters \cup {"0", "1", "2", "3", "4", "5",
                                            "6", "7", "8", "9"}, i + 1)
         IN  IF j > i + 1 /\ j <= Len(s) /\ s[j] = ":" THEN j ELSE 0
    ELSE 0

\* Where a match of `:[a-zA-Z_]+:` that starts at i ends; 0 when none
\* starts there.
ShortcodeEnd(s, i) ==
    IF i <= Len(s) /\ s[i] = ":"
    THEN LET j == ClassEnd(s, Letters, i + 1)
         IN  IF j > i + 1 /\ j <= Len(s) /\ s[j] = ":" THEN j ELSE 0
    ELSE 0

\* Where a match of `&#x[0-9a-fA-F]+;` that starts at i ends; 0 when none
\* starts there.
EntityEnd(s, i) ==
    IF MatchAt(s, EntityPrefix, i)
    THEN LET j == ClassEnd(s, HexDigits, i + Len(EntityPrefix))
         IN  IF j > i + Len(EntityPrefix) /\ j <= Len(s) /\ s[j] = ";"
             THEN j ELSE 0
    ELSE 0

RECURSIVE RunEnd(_, _)
\* The end of the longest match of (?:&#x[0-9a-fA-F]+;)* that starts
\* right after position e.
RunEnd(s, e) ==
    LET n == EntityEnd(s, e + 1) IN IF n = 0 THEN e ELSE RunEnd(s, n)

\* The HTML pattern taking a literal selector after the run as well.
HtmlEnd_WithLiteral(s, i) ==
    LET e == EntityEnd(s, i)
    IN  IF e = 0 THEN 0
        ELSE IF RunEnd(s, e) < Len(s) /\ s[RunEnd(s, e) + 1] = VS16
        THEN RunEnd(s, e) + 1
        ELSE RunEnd(s, e)

\* The HTML pattern without its repeated group: one entity at a time.
HtmlEnd_OneEntity(s, i) == EntityEnd(s, i)

\* Where a match of `&#x[0-9a-fA-F]+;(?:&#x[0-9a-fA-F]+;)*` that starts
\* at i ends; 0 when none starts there.
HtmlEnd(s, i) ==
    LET e == EntityEnd(s, i) IN IF e = 0 THEN 0 ELSE RunEnd(s, e)

RECURSIVE LiteralPass_FirstOnly(_, _, _)
\* The first loop replacing only the first occurrence of each character.
LiteralPass_FirstOnly(result, targetFormat, order) ==
    IF order = << >> THEN result
    ELSE LET emoji       == Head(order)
             transformed == Transform(emojiToName[emoji], targetFormat)
         IN  LiteralPass_FirstOnly(
                 IF Contains(result, emoji) /\ transformed.err = ErrNil
                 THEN ReplaceFirst(result, emoji, transformed.value)
                 ELSE result,
                 targetFormat, Tail(order))

RECURSIVE LiteralPass(_, _, _)
\* The first loop of TransformText: the keys of emojiToName in the order
\* the range loop visits them, each replaced everywhere in the result so
\* far when the result contains it and Transform succeeds.
LiteralPass(result, targetFormat, order) ==
    IF order = << >> THEN result
    ELSE LET emoji       == Head(order)
             transformed == Transform(emojiToName[emoji], targetFormat)
         IN  LiteralPass(
                 IF Contains(result, emoji) /\ transformed.err = ErrNil
                 THEN ReplaceAll(result, emoji, transformed.value)
                 ELSE result,
                 targetFormat, Tail(order))

\* The replacement func using what Transform returned without looking at
\* its error.
ShortcodeFunc_IgnoreErr(match, targetFormat) ==
    IF match \in DOMAIN shortcodeToName
    THEN Transform(shortcodeToName[match], targetFormat).value
    ELSE match

\* The function the shortcode pass replaces a match with.
ShortcodeFunc(match, targetFormat) ==
    IF match \in DOMAIN shortcodeToName
    THEN LET transformed == Transform(shortcodeToName[match], targetFormat)
         IN  IF transformed.err # ErrNil THEN match ELSE transformed.value
    ELSE match

RECURSIVE ShortcodeFrom_ReuseColon(_, _, _)
\* The shortcode pass in which a match that is no key consumes nothing:
\* its closing colon may open the next match.
ShortcodeFrom_ReuseColon(s, targetFormat, i) ==
    IF i > Len(s) THEN << >>
    ELSE LET e == ShortcodeEnd(s, i)
         IN  IF e = 0 \/ SubSeq(s, i, e) \notin DOMAIN shortcodeToName
             THEN <<s[i]>> \o ShortcodeFrom_ReuseColon(s, targetFormat, i + 1)
             ELSE ShortcodeFunc(SubSeq(s, i, e), targetFormat)
                  \o ShortcodeFrom_ReuseColon(s, targetFormat, e + 1)

RECURSIVE ShortcodeFrom(_, _, _)
\* shortcodeRegex.ReplaceAllStringFunc on s[i..]: the leftmost match, then
\* the rest after it.
ShortcodeFrom(s, targetFormat, i) ==
    IF i > Len(s) THEN << >>
    ELSE LET e == ShortcodeEnd(s, i)
         IN  IF e = 0
             THEN <<s[i]>> \o ShortcodeFrom(s, targetFormat, i + 1)
             ELSE ShortcodeFunc(SubSeq(s, i, e), targetFormat)
                  \o ShortcodeFrom(s, targetFormat, e + 1)

\* The second pass of TransformText.
ShortcodePass(result, targetFormat) == ShortcodeFrom(result, targetFormat, 1)

\* The replacement func deleting a run that is not a key.
HtmlFunc_DropUnknown(match, targetFormat) ==
    IF match \in DOMAIN htmlToName
    THEN LET transformed == Transform(htmlToName[match], targetFormat)
         IN  IF transformed.err # ErrNil THEN match ELSE transformed.value
    ELSE << >>

\* The function the HTML pass replaces a match with.
HtmlFunc(match, targetFormat) ==
    IF match \in DOMAIN htmlToName
    THEN LET transformed == Transform(htmlToName[match], targetFormat)
         IN  IF transformed.err # ErrNil THEN match ELSE transformed.value
    ELSE match

RECURSIVE HtmlFrom(_, _, _)
\* htmlRegex.ReplaceAllStringFunc on s[i..]: the leftmost longest run of
\* entities, then the rest after it.
HtmlFrom(s, targetFormat, i) ==
    IF i > Len(s) THEN << >>
    ELSE LET e == HtmlEnd(s, i)
         IN  IF e = 0
             THEN <<s[i]>> \o HtmlFrom(s, targetFormat, i + 1)
             ELSE HtmlFunc(SubSeq(s, i, e), targetFormat)
                  \o HtmlFrom(s, targetFormat, e + 1)

\* The third pass followed by a lookup of the text in the escape index.
HtmlPass_ThenEscape(result, targetFormat) ==
    LET r == HtmlFrom(result, targetFormat, 1)
    IN  IF r \in DOMAIN unicodeToName
           /\ Transform(unicodeToName[r], targetFormat).err = ErrNil
        THEN Transform(unicodeToName[r], targetFormat).value
        ELSE r

\* The third pass of TransformText.
HtmlPass(result, targetFormat) == HtmlFrom(result, targetFormat, 1)

\* TransformText running the HTML pass first, on the text as given, and
\* the literal and the shortcode pass after it.
TransformText_HtmlFirst(text, targetFormat, order) ==
    ShortcodePass(LiteralPass(HtmlPass(text, targetFormat),
                              targetFormat, order),
                  targetFormat)

\* TransformText(text, targetFormat) -> string, when the range loop visits
\* the keys of emojiToName in the given order.
TransformText(text, targetFormat, order) ==
    HtmlPass(ShortcodePass(LiteralPass(text, targetFormat, order),
                           targetFormat),
             targetFormat)

\* ------------------------------------------------------------------------
\* init() of mappings.go
\* ------------------------------------------------------------------------

\* The loop body storing the record's HTML, not its name, as the value.
HtmlEntry_StoresKey(index, name, mapping) ==
    MapPut(index, mapping.HTML, mapping.HTML)

\* The loop body without the hybrid key.
HtmlEntry_NoHybrid(index, name, mapping) ==
    LET canonical == MapPut(index, mapping.HTML, name)
        htmlBase  == ReplaceFirst(mapping.HTML, VsEntity, << >>)
    IN  IF Contains(mapping.HTML, VsEntity)
        THEN MapPut(canonical, htmlBase, name)
        ELSE canonical

\* htmlToName after the loop body has run for one catalog entry.
HtmlEntry(index, name, mapping) ==
    LET canonical  == MapPut(index, mapping.HTML, name)
        htmlBase   == ReplaceFirst(mapping.HTML, VsEntity, << >>)
        hybridHTML == htmlBase \o VsLiteral
    IN  IF Contains(mapping.HTML, VsEntity)
        THEN MapPut(MapPut(canonical, htmlBase, name), hybridHTML, name)
        ELSE canonical

\* unicodeToName after the loop body has run for one catalog entry.
UnicodeEntry(index, name, mapping) ==
    LET canonical   == MapPut(index, mapping.Unicode, name)
        unicodeBase == ReplaceFirst(mapping.Unicode, VsEscape, << >>)
    IN  IF Contains(mapping.Unicode, VsEscape)
        THEN MapPut(canonical, unicodeBase, name)
        ELSE canonical

NoCall == [op |-> "none", input |-> << >>, format |-> ""]

\* The operations are served once init() has visited every entry, one call
\* at a time: the caller has taken the result of the call before.
Ready == pending = {} /\ call.op = "none"

NoRet ==
    [value |-> << >>, isNil |-> TRUE, mapping |-> ZeroMapping,
     supported |-> FALSE, names |-> << >>, err |-> ErrNil,
     visited |-> << >>, literal |-> << >>, shortcodes |-> << >>]

\* The state when init() enters its loop: the four maps are made and
\* empty, the catalog is one of the catalogs.
Init ==
    /\ emojiMappings \in Catalogs
    /\ emojiToName = EmptyMap
    /\ shortcodeToName = EmptyMap
    /\ htmlToName = EmptyMap
    /\ unicodeToName = EmptyMap
    /\ pending = DOMAIN emojiMappings
    /\ call = NoCall
    /\ ret = NoRet

\* One iteration of the range loop of init(); Go visits the entries of a
\* map in an unspecified order.
InitEntry ==
    \E name \in pending :
        LET mapping == emojiMappings[name]
        IN  /\ emojiToName' = MapPut(emojiToName, mapping.Emoji, name)
            /\ shortcodeToName' = MapPut(shortcodeToName, mapping.Shortcode, name)
            /\ htmlToName' = HtmlEntry(htmlToName, name, mapping)
            /\ unicodeToName' = UnicodeEntry(unicodeToName, name, mapping)
            /\ pending' = pending \ {name}
            /\ UNCHANGED <<emojiMappings, call, ret>>

\* A call of Transform(input, targetFormat).
CallTransform ==
    /\ Ready
    /\ \E input \in Inputs, targetFormat \in Formats :
        LET r == Transform(input, targetFormat)
        IN  /\ call' = [op |-> "Transform", input |-> input,
                        format |-> targetFormat]
            /\ ret' = [NoRet EXCEPT !.value = r.value, !.err = r.err]
    /\ UNCHANGED <<emojiMappings, indices, pending>>

\* A call of GetEmojiInfo(input).
CallGetEmojiInfo ==
    /\ Ready
    /\ \E input \in Inputs :
        LET r == GetEmojiInfo(input)
        IN  /\ call' = [NoCall EXCEPT !.op = "GetEmojiInfo", !.input = input]
            /\ ret' = [NoRet EXCEPT !.isNil = r.isNil, !.mapping = r.mapping,
                                    !.err = r.err]
    /\ UNCHANGED <<emojiMappings, indices, pending>>

\* A call of IsSupported(input).
CallIsSupported ==
    /\ Ready
    /\ \E input \in Inputs :
        /\ call' = [NoCall EXCEPT !.op = "IsSupported", !.input = input]
        /\ ret' = [NoRet EXCEPT !.supported = IsSupported(input)]
    /\ UNCHANGED <<emojiMappings, indices, pending>>

\* A call of GetSupportedEmojis().
CallGetSupportedEmojis ==
    /\ Ready
    /\ \E names \in GetSupportedEmojis :
        /\ call' = [NoCall EXCEPT !.op = "GetSupportedEmojis"]
        /\ ret' = [NoRet EXCEPT !.names = names]
    /\ UNCHANGED <<emojiMappings, indices, pending>>

\* The caller takes the result; the package is idle again.
Return ==
    /\ call.op # "none"
    /\ call' = NoCall
    /\ ret' = NoRet
    /\ UNCHANGED <<emojiMappings, indices, pending>>

Next ==
    \/ InitEntry
    \/ CallTransform
    \/ CallGetEmojiInfo
    \/ CallIsSupported
    \/ CallGetSupportedEmojis
    \/ Return

Spec == Init /\ [][Next]_vars

\* init() of a catalog of TextCatalogs.
InitText ==
    /\ emojiMappings \in TextCatalogs
    /\ emojiToName = EmptyMap
    /\ shortcodeToName = EmptyMap
    /\ htmlToName = EmptyMap
    /\ unicodeToName = EmptyMap
    /\ pending = DOMAIN emojiMappings
    /\ call = NoCall
    /\ ret = NoRet

\* A call of TransformText(text, targetFormat); visited is the order in
\* which its range loop went through the keys of emojiToName, literal and
\* shortcodes are the values of result after the first and the second pass.
CallTransformText ==
    /\ Ready
    /\ \E text \in Texts, targetFormat \in Formats,
          order \in Orders(DOMAIN emojiToName) :
        /\ call' = [op |-> "TransformText", input |-> text,
                    format |-> targetFormat]
        /\ ret' = [NoRet EXCEPT
                       !.value = TransformText(text, targetFormat, order),
                       !.visited = order,
                       !.literal = LiteralPass(text, targetFormat, order),
                       !.shortcodes =
                           ShortcodePass(
                               LiteralPass(text, targetFormat, order),
                               targetFormat)]
    /\ UNCHANGED <<emojiMappings, indices, pending>>

NextText ==
    \/ InitEntry
    \/ CallTransformText
    \/ Return

SpecText == InitText /\ [][NextText]_vars

\* ------------------------------------------------------------------------
\* Several threads calling the package
\* ------------------------------------------------------------------------

\* The calling threads; here call and ret hold one record for each thread.
Threads == 1..MaxThreads

\* Inputs the threads pass: a name, the HTML of a code point, a string of
\* no catalog.
ApiInputs == {<<"a">>, HtmlOfCp(Heart), <<"c">>}

\* Texts the threads pass.
ApiTexts == {WrapColons(<<"a">>), <<Heart>>}

\* Formats the threads pass.
ApiFormats == {FormatHTML, "invalid_format"}

\* What a caller writes into the Emoji field of a record it was given.
Scribble == <<"c">>

\* GetEmojiInfo returning the address of the catalog's own record.
InfoSharesCatalog_Aliased == TRUE

\* Whether the *Mapping GetEmojiInfo returns points into the catalog:
\* "mapping := emojiMappings[name]; return &mapping" copies the record and
\* returns the address of the copy.
InfoSharesCatalog == FALSE

InitApi ==
    /\ emojiMappings \in TextCatalogs
    /\ emojiToName = EmptyMap
    /\ shortcodeToName = EmptyMap
    /\ htmlToName = EmptyMap
    /\ unicodeToName = EmptyMap
    /\ pending = DOMAIN emojiMappings
    /\ call = [t \in Threads |-> NoCall]
    /\ ret = [t \in Threads |-> NoRet]

\* Thread t may call: init() is through and t holds no result.
Idle(t) == pending = {} /\ call[t].op = "none"

\* Thread t calls Transform.
ThreadTransform(t) ==
    /\ Idle(t)
    /\ \E input \in ApiInputs, targetFormat \in ApiFormats :
        LET r == Transform(input, targetFormat)
        IN  /\ call' = [call EXCEPT ![t] = [op |-> "Transform", input |-> input,
                                            format |-> targetFormat]]
            /\ ret' = [ret EXCEPT ![t] = [NoRet EXCEPT !.value = r.value,
                                                       !.err = r.err]]
    /\ UNCHANGED <<emojiMappings, indices, pending>>

\* Thread t calls TransformText.
ThreadTransformText(t) ==
    /\ Idle(t)
    /\ \E text \in ApiTexts, targetFormat \in ApiFormats,
          order \in Orders(DOMAIN emojiToName) :
        /\ call' = [call EXCEPT ![t] = [op |-> "TransformText", input |-> text,
                                        format |-> targetFormat]]
        /\ ret' = [ret EXCEPT ![t] =
                       [NoRet EXCEPT
                           !.value = TransformText(text, targetFormat, order),
                           !.visited = order,
                           !.literal = LiteralPass(text, targetFormat, order),
                           !.shortcodes =
                               ShortcodePass(
                                   LiteralPass(text, targetFormat, order),
                                   targetFormat)]]
    /\ UNCHANGED <<emojiMappings, indices, pending>>

\* Thread t calls GetEmojiInfo.
ThreadGetEmojiInfo(t) ==
    /\ Idle(t)
    /\ \E input \in ApiInputs :
        LET r == GetEmojiInfo(input)
        IN  /\ call' = [call EXCEPT ![t] = [NoCall EXCEPT !.op = "GetEmojiInfo",
                                                          !.input = input]]
            /\ ret' = [ret EXCEPT ![t] = [NoRet EXCEPT !.isNil = r.isNil,
                                                       !.mapping = r.mapping,
                                                       !.err = r.err]]
    /\ UNCHANGED <<emojiMappings, indices, pending>>

\* Thread t calls IsSupported.
ThreadIsSupported(t) ==
    /\ Idle(t)
    /\ \E input \in ApiInputs :
        /\ call' = [call EXCEPT ![t] = [NoCall EXCEPT !.op = "IsSupported",
                                                      !.input = input]]
        /\ ret' = [ret EXCEPT ![t] = [NoRet EXCEPT
                                          !.supported = IsSupported(input)]]
    /\ UNCHANGED <<emojiMappings, indices, pending>>

\* Thread t calls GetSupportedEmojis.
ThreadGetSupportedEmojis(t) ==
    /\ Idle(t)
    /\ \E names \in GetSupportedEmojis :
        /\ call' = [call EXCEPT ![t] = [NoCall EXCEPT !.op = "GetSupportedEmojis"]]
        /\ ret' = [ret EXCEPT ![t] = [NoRet EXCEPT !.names = names]]
    /\ UNCHANGED <<emojiMappings, indices, pending>>

\* Thread t writes the Emoji field of the record GetEmojiInfo gave it,
\* through the pointer it holds.
MutateInfo(t) ==
    /\ call[t].op = "GetEmojiInfo"
    /\ ~ ret[t].isNil
    /\ ret[t].mapping.Emoji # Scribble
    /\ ret' = [ret EXCEPT ![t].mapping.Emoji = Scribble]
    /\ emojiMappings' =
           IF InfoSharesCatalog
           THEN [emojiMappings EXCEPT
                    ![findEmojiName(call[t].input)].Emoji = Scribble]
           ELSE emojiMappings
    /\ UNCHANGED <<indices, pending, call>>

\* Thread t drops the result it holds.
ThreadReturn(t) ==
    /\ call[t].op # "none"
    /\ call' = [call EXCEPT ![t] = NoCall]
    /\ ret' = [ret EXCEPT ![t] = NoRet]
    /\ UNCHANGED <<emojiMappings, indices, pending>>

NextApi ==
    \/ InitEntry
    \/ \E t \in Threads : ThreadTransform(t)
    \/ \E t \in Threads : ThreadTransformText(t)
    \/ \E t \in Threads : ThreadGetEmojiInfo(t)
    \/ \E t \in Threads : ThreadIsSupported(t)
    \/ \E t \in Threads : ThreadGetSupportedEmojis(t)
    \/ \E t \in Threads : MutateInfo(t)
    \/ \E t \in Threads : ThreadReturn(t)

SpecApi == InitApi /\ [][NextApi]_vars

\* ------------------------------------------------------------------------
\* Properties
\* ------------------------------------------------------------------------

\* Field F of a catalog record, as the data model names the fields.
FieldOf(record, F) ==
    IF F = FormatEmoji THEN record.Emoji
    ELSE IF F = FormatShortcode THEN record.Shortcode
    ELSE IF F = FormatHTML THEN record.HTML
    ELSE record.Unicode

\* The last call was op and has returned.
Returned(op) == call.op = op

\* C1: whenever Transform is called with a valid target format F on an
\* input that the resolver maps to a catalog name n, it returns no error
\* and exactly field F of the catalog record of n, whatever representation
\* the input was given in.
C1_TransformProjects ==
    (/\ Returned("Transform")
     /\ call.format \in ValidFormats
     /\ findEmojiName(call.input) \in DOMAIN emojiMappings)
    => /\ ret.err = ErrNil
       /\ ret.value = FieldOf(emojiMappings[findEmojiName(call.input)],
                              call.format)

\* C1 witness: Transform answered an input that is neither a name nor a
\* canonical field of its record (it resolved by hybrid normalization),
\* and returned the escape sequence of the record.
C1_Witness ==
    /\ Returned("Transform")
    /\ call.format = FormatUnicode
    /\ findEmojiStep(call.input).step = 5
    /\ ret.err = ErrNil
    /\ ret.value = emojiMappings[findEmojiName(call.input)].Unicode

\* C2: whenever Transform is called with a target format outside the four
\* valid ones, it fails with the invalid-format error and returns the empty
\* string, whether or not the input resolves; it never reports not-found.
C2_InvalidFormatFirst ==
    (Returned("Transform") /\ call.format \notin ValidFormats)
    => /\ ret.err = ErrInvalidFormat
       /\ ret.value = << >>

\* C2 witness: Transform was called with an invalid format on an input
\* that does not resolve, and reported the invalid format.
C2_Witness ==
    /\ Returned("Transform")
    /\ call.format \notin ValidFormats
    /\ ~IsSupported(call.input)
    /\ ret.err = ErrInvalidFormat

\* C3: on every input the three outcomes coincide: IsSupported is true iff
\* Transform succeeds for every valid format iff GetEmojiInfo succeeds; when
\* the resolver finds no name Transform returns ("", not found) and
\* GetEmojiInfo returns (nil, not found).
C3_OutcomesCoincide ==
    /\ (Returned("Transform") /\ call.format \in ValidFormats)
       => /\ (ret.err = ErrNil) <=> IsSupported(call.input)
          /\ (ret.err = ErrNil) <=> (GetEmojiInfo(call.input).err = ErrNil)
          /\ findEmojiName(call.input) = << >>
             => ret.value = << >> /\ ret.err = ErrNotFound
    /\ Returned("GetEmojiInfo")
       => /\ (ret.err = ErrNil) <=> IsSupported(call.input)
          /\ \A F \in ValidFormats :
                (ret.err = ErrNil) <=> (Transform(call.input, F).err = ErrNil)
          /\ findEmojiName(call.input) = << >>
             => ret.isNil /\ ret.err = ErrInfoNotFound
    /\ Returned("IsSupported")
       => /\ \A F \in ValidFormats :
                ret.supported <=> (Transform(call.input, F).err = ErrNil)
          /\ ret.supported <=> (GetEmojiInfo(call.input).err = ErrNil)

\* C3 witness: IsSupported answered false on a non-empty input, on which
\* Transform and GetEmojiInfo fail too.
C3_Witness ==
    /\ Returned("IsSupported")
    /\ ~ret.supported
    /\ TrimSpace(call.input) # << >>
    /\ Transform(call.input, FormatEmoji).err = ErrNotFound
    /\ GetEmojiInfo(call.input).isNil

\* C4 (as claimed): the empty string and every white-space-only string
\* never resolve: Transform fails with not-found for every valid format and
\* IsSupported is false, in every catalog whose four fields are non-empty.
C4_EmptyNeverResolves ==
    /\ (/\ Returned("Transform")
        /\ TrimSpace(call.input) = << >>
        /\ call.format \in ValidFormats)
       => ret.err = ErrNotFound /\ ret.value = << >>
    /\ (Returned("IsSupported") /\ TrimSpace(call.input) = << >>)
       => ~ret.supported

\* Whether step k of the resolution order matches the trimmed input.
StepHit(k, in) ==
    CASE k = 1 -> in \in DOMAIN emojiMappings
      [] k = 2 -> in \in DOMAIN emojiToName
      [] k = 3 -> in \in DOMAIN shortcodeToName
      [] k = 4 -> in \in DOMAIN htmlToName
      [] k = 5 -> /\ Contains(in, EntityPrefix)
                  /\ HasSuffix(in, VsLiteral)
                  /\ ReplaceFirst(in, VsLiteral, VsEntity) \in DOMAIN htmlToName
      [] k = 6 -> in \in DOMAIN unicodeToName
      [] k = 7 -> WrapColons(in) \in DOMAIN shortcodeToName
      [] OTHER -> TRUE

\* The name step k of the resolution order gives for the trimmed input.
StepName(k, in) ==
    CASE k = 1 -> in
      [] k = 2 -> emojiToName[in]
      [] k = 3 -> shortcodeToName[in]
      [] k = 4 -> htmlToName[in]
      [] k = 5 -> htmlToName[ReplaceFirst(in, VsLiteral, VsEntity)]
      [] k = 6 -> unicodeToName[in]
      [] k = 7 -> shortcodeToName[WrapColons(in)]
      [] OTHER -> << >>

\* The first step of the order 1..8 that matches.
FirstStep(in) ==
    CHOOSE k \in 1..8 : StepHit(k, in) /\ \A j \in 1..(k - 1) : ~StepHit(j, in)

\* C5: the resolver answers with the name of the first matching step of
\* the order name, character, shortcode, HTML, hybrid-normalized HTML,
\* escape, colon-wrapped shortcode, not found, and with that of no later
\* step; a catalog name resolves to itself whatever else it is a key of.
C5_FirstMatchWins ==
    call.op \in {"Transform", "GetEmojiInfo", "IsSupported"}
    => LET in == TrimSpace(call.input)
           k  == FirstStep(in)
       IN  /\ findEmojiStep(call.input) = [step |-> k, name |-> StepName(k, in)]
           /\ in \in DOMAIN emojiMappings => findEmojiName(call.input) = in
           /\ Returned("IsSupported") => (ret.supported <=> k < 8)
           /\ (Returned("GetEmojiInfo") /\ k < 8)
              => ret.mapping = emojiMappings[StepName(k, in)]
           /\ (Returned("Transform") /\ k < 8 /\ call.format \in ValidFormats)
              => ret.value = FieldOf(emojiMappings[StepName(k, in)], call.format)

\* C5 witness: GetEmojiInfo was called with a catalog name that, wrapped in
\* colons, is the shortcode of a different record, and returned the record
\* of the name.
C5_Witness ==
    /\ Returned("GetEmojiInfo")
    /\ call.input \in DOMAIN emojiMappings
    /\ WrapColons(call.input) \in DOMAIN shortcodeToName
    /\ shortcodeToName[WrapColons(call.input)] # call.input
    /\ ret.mapping = emojiMappings[call.input]

\* The input w of the last call has no colon, ":w:" is a shortcode key, and
\* w is neither a catalog name nor a character key.
ColonlessShortcode ==
    LET in == TrimSpace(call.input)
    IN  /\ call.op \in {"Transform", "GetEmojiInfo", "IsSupported"}
        /\ \A i \in 1..Len(in) : in[i] # ":"
        /\ WrapColons(in) \in DOMAIN shortcodeToName
        /\ in \notin DOMAIN emojiMappings
        /\ in \notin DOMAIN emojiToName

\* C6 (as claimed): a colon-less input w with ":w:" a shortcode key
\* resolves to that shortcode's record at step 3, before the HTML index,
\* the hybrid normalization and the escape index are consulted.
C6_ColonlessAtStep3 ==
    ColonlessShortcode
    => findEmojiStep(call.input) =
          [step |-> 3, name |-> shortcodeToName[WrapColons(TrimSpace(call.input))]]

\* C6 (amended): step 3 matches the shortcode index exactly; a colon-less
\* input w with ":w:" a shortcode key resolves to that shortcode's record
\* only at step 7, after the HTML index, the hybrid normalization and the
\* escape index: an HTML or escape key equal to w wins over it.
C6_ColonlessAtStep7 ==
    ColonlessShortcode
    => LET in == TrimSpace(call.input)
           r  == findEmojiStep(call.input)
       IN  /\ r.step \in 4..7
           /\ in \in DOMAIN htmlToName => r = [step |-> 4, name |-> htmlToName[in]]
           /\ (in \notin DOMAIN htmlToName /\ in \in DOMAIN unicodeToName)
              => r.step \in {5, 6}
           /\ r.step = 7 => r.name = shortcodeToName[WrapColons(in)]
           /\ (/\ in \notin DOMAIN htmlToName
               /\ in \notin DOMAIN unicodeToName
               /\ ~StepHit(5, in)) => r.step = 7

\* C6 witness: the colon-less input of a Transform call is an HTML key of
\* one record while, wrapped in colons, it is the shortcode of another;
\* Transform returned the character of the record of the HTML key.
C6_Witness ==
    /\ ColonlessShortcode
    /\ Returned("Transform")
    /\ call.format = FormatEmoji
    /\ TrimSpace(call.input) \in DOMAIN htmlToName
    /\ htmlToName[TrimSpace(call.input)]
          # shortcodeToName[WrapColons(TrimSpace(call.input))]
    /\ ret.value = emojiMappings[htmlToName[TrimSpace(call.input)]].Emoji

\* C7: white space around the input never changes the result: Transform,
\* GetEmojiInfo and IsSupported return on every input what they return on
\* the trimmed input, and the trimmed input is the one every step uses,
\* the final colon-wrapping retry included.
C7_TrimmedInputDecides ==
    LET in == TrimSpace(call.input)
    IN  /\ Returned("Transform")
           => LET t == Transform(in, call.format)
              IN  ret.value = t.value /\ ret.err = t.err
        /\ Returned("GetEmojiInfo")
           => LET g == GetEmojiInfo(in)
              IN  /\ ret.isNil = g.isNil
                  /\ ret.mapping = g.mapping
                  /\ ret.err = g.err
        /\ Returned("IsSupported") => ret.supported = IsSupported(in)
        /\ call.op \in {"Transform", "GetEmojiInfo", "IsSupported"}
           => findEmojiStep(call.input) = findEmojiStep(in)

\* C7 witness: Transform was called with an input that has white space
\* around it and that only the colon-wrapping retry resolves, and returned
\* the shortcode of the record.
C7_Witness ==
    /\ Returned("Transform")
    /\ call.format = FormatShortcode
    /\ call.input # TrimSpace(call.input)
    /\ findEmojiStep(call.input).step = 7
    /\ ret.err = ErrNil
    /\ ret.value = WrapColons(TrimSpace(call.input))

\* C8: for every input that resolves to a name n GetEmojiInfo returns a
\* non-nil record equal to the catalog record of n, whose field F is what
\* Transform returns for each valid format F; for every input that does
\* not resolve it returns a nil record with an error.
C8_InfoIsCatalogRecord ==
    Returned("GetEmojiInfo")
    => LET n == findEmojiName(call.input)
       IN  IF n # << >>
           THEN /\ ~ret.isNil
                /\ ret.err = ErrNil
                /\ n \in DOMAIN emojiMappings
                /\ ret.mapping = emojiMappings[n]
                /\ \A F \in ValidFormats :
                      LET t == Transform(call.input, F)
                      IN  t.err = ErrNil /\ FieldOf(ret.mapping, F) = t.value
           ELSE ret.isNil /\ ret.err # ErrNil

\* C8 witness: GetEmojiInfo was called with a base HTML key that is no
\* field of any record and returned the record it was derived from.
C8_Witness ==
    /\ Returned("GetEmojiInfo")
    /\ ~ret.isNil
    /\ findEmojiStep(call.input).step = 4
    /\ ret.mapping.HTML # TrimSpace(call.input)
    /\ ret.mapping = emojiMappings[htmlToName[TrimSpace(call.input)]]

\* C9: GetSupportedEmojis returns exactly the catalog names, each of them
\* once; every name returned is supported and resolves to itself.
C9_NamesAreCatalog ==
    Returned("GetSupportedEmojis")
    => /\ {ret.names[i] : i \in DOMAIN ret.names} = DOMAIN emojiMappings
       /\ Len(ret.names) = Cardinality(DOMAIN emojiMappings)
       /\ \A i \in DOMAIN ret.names :
             /\ IsSupported(ret.names[i])
             /\ findEmojiName(ret.names[i]) = ret.names[i]

\* C9 witness: GetSupportedEmojis returned the names of a catalog of more
\* than one record.
C9_Witness ==
    /\ Returned("GetSupportedEmojis")
    /\ Len(ret.names) > 1
    /\ {ret.names[i] : i \in DOMAIN ret.names} = DOMAIN emojiMappings

\* C10 (as claimed): for every catalog name n and every pair of valid
\* formats (f1, f2), Transform(n, f1) succeeds, the resolver maps its
\* result back to n, and Transform of that result to f2 succeeds with
\* field f2 of the record of n.
C10_RoundTrip ==
    (/\ Returned("Transform")
     /\ call.input \in DOMAIN emojiMappings
     /\ call.format \in ValidFormats)
    => /\ ret.err = ErrNil
       /\ findEmojiName(ret.value) = call.input
       /\ \A f2 \in ValidFormats :
             LET t == Transform(ret.value, f2)
             IN  /\ t.err = ErrNil
                 /\ t.value = FieldOf(emojiMappings[call.input], f2)

\* C11: for every text t and every valid format F, giving the result of
\* TransformText(t, F) to TransformText again with the same F returns it
\* unchanged, in whatever order the second call visits the characters.
C11_Idempotent ==
    (Returned("TransformText") /\ call.format \in ValidFormats) =>
        \A again \in Orders(DOMAIN emojiToName) :
            TransformText(ret.value, call.format, again) = ret.value

\* A call that rewrote its text has returned.
C11_Witness ==
    /\ Returned("TransformText")
    /\ call.format \in ValidFormats
    /\ ret.value # call.input
    /\ Cardinality(DOMAIN emojiToName) = 2

\* s without its last n characters.
DropLast(s, n) == SubSeq(s, 1, Len(s) - n)

\* C12: for every record whose HTML is X followed by the
\* variation-selector entity, the canonical HTML, the base HTML X and the
\* hybrid X + literal selector are all supported and all transform to the
\* record's own character, and the canonical escape and the escape with
\* the trailing selector escape stripped both resolve to that record.
C12_VariationSelectorEquivalence ==
    pending = {} =>
        \A n \in DOMAIN emojiMappings :
            LET record == emojiMappings[n]
                X      == DropLast(record.HTML, Len(VsEntity))
                base   == DropLast(record.Unicode, Len(VsEscape))
            IN  HasSuffix(record.HTML, VsEntity) =>
                    /\ \A form \in {record.HTML, X, X \o VsLiteral} :
                        /\ IsSupported(form)
                        /\ Transform(form, FormatEmoji) =
                               [value |-> record.Emoji, err |-> ErrNil]
                    /\ findEmojiName(record.Unicode) = n
                    /\ findEmojiName(base) = n

\* Positions of t.
Pos(t) == 1..Len(t)

\* The positions of t that hold the character c.
At(t, c) == {p \in Pos(t) : t[p] = c}

\* t[i..j] is a colon, one or more letters or underscores, and a colon.
ShortcodeShaped(t, i, j) ==
    /\ 1 <= i /\ i + 1 < j /\ j <= Len(t)
    /\ t[i] = ":" /\ t[j] = ":"
    /\ \A k \in (i + 1)..(j - 1) : t[k] \in Letters

RECURSIVE IsShortcodeMatch(_, _, _)
\* t[i..j] is one of the non-overlapping shortcode matches of t, taken
\* from the left: its opening colon does not close the match before it.
IsShortcodeMatch(t, i, j) ==
    /\ ShortcodeShaped(t, i, j)
    /\ ~ \E h \in {p \in At(t, ":") : p < i} : IsShortcodeMatch(t, h, i)

\* The shortcode matches of t, as pairs <<first, last position>>.
ShortcodeMatches(t) ==
    {m \in At(t, ":") \X At(t, ":") : IsShortcodeMatch(t, m[1], m[2])}

\* t[i..j] is one entity "&#x<hex>;".
IsEntity(t, i, j) ==
    /\ MatchAt(t, EntityPrefix, i)
    /\ i + Len(EntityPrefix) < j /\ j <= Len(t)
    /\ t[j] = ";"
    /\ \A k \in (i + Len(EntityPrefix))..(j - 1) : t[k] \in HexDigits

RECURSIVE IsEntityRun(_, _, _)
\* t[i..j] is one or more entities written back to back.
IsEntityRun(t, i, j) ==
    \E k \in {p \in At(t, ";") : i < p /\ p <= j} :
        IsEntity(t, i, k) /\ (k = j \/ IsEntityRun(t, k + 1, j))

\* t[i..j] is a maximal run of entities: no entity ends right before it
\* and none starts right after it.
IsMaximalRun(t, i, j) ==
    /\ IsEntityRun(t, i, j)
    /\ ~ \E h \in {p \in At(t, "&") : p < i} : IsEntity(t, h, i - 1)
    /\ ~ \E k \in {p \in At(t, ";") : p > j} : IsEntity(t, j + 1, k)

\* The maximal entity runs of t, as pairs <<first, last position>>.
MaximalRuns(t) ==
    {m \in At(t, "&") \X At(t, ";") : IsMaximalRun(t, m[1], m[2])}

\* t[m[1]..m[2]]
Sub(t, m) == SubSeq(t, m[1], m[2])

\* t holds nothing TransformText recognizes.
NothingRecognized(t) ==
    /\ \A emoji \in DOMAIN emojiToName : ~ Contains(t, emoji)
    /\ \A m \in ShortcodeMatches(t) : Sub(t, m) \notin DOMAIN shortcodeToName
    /\ \A m \in MaximalRuns(t) : Sub(t, m) \notin DOMAIN htmlToName

\* C13: whenever the text holds no catalog character, no shortcode match
\* that is a key of the shortcode index and no maximal entity run that is
\* a key of the HTML index, TransformText returns the text unchanged, for
\* every format value; the empty text is such a text.
C13_UnrecognizedUnchanged ==
    /\ NothingRecognized(<< >>)
    /\ (Returned("TransformText") /\ NothingRecognized(call.input)) =>
           ret.value = call.input

\* A text with a shortcode match and an entity run, neither of them a key,
\* was returned for a valid format.
C13_Witness ==
    /\ Returned("TransformText")
    /\ call.format \in ValidFormats
    /\ NothingRecognized(call.input)
    /\ ShortcodeMatches(call.input) # {}
    /\ MaximalRuns(call.input) # {}
    /\ ret.value = call.input

\* C14: for every text and every target format outside the four valid
\* ones, every Transform call TransformText delegates to fails and
\* TransformText returns the text exactly as it was given.
C14_InvalidFormatUnchanged ==
    (Returned("TransformText") /\ call.format \notin ValidFormats) =>
        /\ \A n \in DOMAIN emojiMappings :
               Transform(n, call.format).err = ErrInvalidFormat
        /\ ret.value = call.input

\* A text with a catalog character, or a shortcode key, next to an HTML
\* key was returned for an invalid format.
C14_Witness ==
    /\ Returned("TransformText")
    /\ call.format \notin ValidFormats
    /\ \/ \E emoji \in DOMAIN emojiToName : Contains(call.input, emoji)
       \/ \E m \in ShortcodeMatches(call.input) :
           Sub(call.input, m) \in DOMAIN shortcodeToName
    /\ \E m \in MaximalRuns(call.input) :
           Sub(call.input, m) \in DOMAIN htmlToName
    /\ ret.value = call.input

\* t[i..j] is an occurrence of a catalog character, of a key of the
\* shortcode index, or of an entity sequence that is a key of the HTML
\* index.
IsOccurrence(t, i, j) ==
    /\ 1 <= i /\ i <= j /\ j <= Len(t)
    /\ \/ SubSeq(t, i, j) \in DOMAIN emojiToName
       \/ SubSeq(t, i, j) \in DOMAIN shortcodeToName
       \/ IsEntityRun(t, i, j) /\ SubSeq(t, i, j) \in DOMAIN htmlToName

\* The record an occurrence stands for.
RecordOf(s) ==
    IF s \in DOMAIN emojiToName THEN emojiMappings[emojiToName[s]]
    ELSE IF s \in DOMAIN shortcodeToName THEN emojiMappings[shortcodeToName[s]]
    ELSE emojiMappings[htmlToName[s]]

\* No two occurrences of t share a position.
OccurrencesApart(t) ==
    \A i, j, k, l \in Pos(t) :
        (IsOccurrence(t, i, j) /\ IsOccurrence(t, k, l) /\ <<i, j>> # <<k, l>>)
            => (j < k \/ l < i)

RECURSIVE RewriteFrom(_, _, _)
\* t[i..] with every occurrence replaced by field F of its record and every
\* other character kept.
RewriteFrom(t, F, i) ==
    IF i > Len(t) THEN << >>
    ELSE IF \E j \in i..Len(t) : IsOccurrence(t, i, j)
    THEN LET j == CHOOSE j \in i..Len(t) : IsOccurrence(t, i, j)
         IN  FieldOf(RecordOf(SubSeq(t, i, j)), F) \o RewriteFrom(t, F, j + 1)
    ELSE <<t[i]>> \o RewriteFrom(t, F, i + 1)

\* C15: for every valid format F, TransformText(t, F) is t with every
\* occurrence of a catalog character, of a shortcode key and of an HTML key
\* replaced by field F of its record, and with everything else untouched
\* (stated for the texts whose occurrences do not overlap one another).
C15_RewritesEveryOccurrence ==
    (/\ Returned("TransformText")
     /\ call.format \in ValidFormats
     /\ OccurrencesApart(call.input)) =>
        ret.value = RewriteFrom(call.input, call.format, 1)

\* The records one of whose representations (character, letters-only
\* shortcode, canonical HTML) the string s is.
Owners(s) ==
    {n \in DOMAIN emojiMappings :
        \/ emojiMappings[n].Emoji = s
        \/ emojiMappings[n].Shortcode = s /\ ShortcodeShaped(s, 1, Len(s))
        \/ emojiMappings[n].HTML = s}

\* A stretch between separators is a representation of a record, or holds
\* nothing that is recognized.
IsItem(s) == Owners(s) # {} \/ NothingRecognized(s)

\* What the claim expects in place of an item.
ExpectedItem(s, F) ==
    IF Owners(s) # {}
    THEN FieldOf(emojiMappings[CHOOSE n \in Owners(s) : TRUE], F)
    ELSE s

\* The end of the item that starts t: the position before the first
\* space, or the end of t.
ItemEnd(t) == IF Contains(t, <<" ">>) THEN Index(t, <<" ">>) - 1 ELSE Len(t)

RECURSIVE AllItems(_)
\* Every stretch of t between spaces is an item.
AllItems(t) ==
    /\ IsItem(SubSeq(t, 1, ItemEnd(t)))
    /\ ItemEnd(t) = Len(t) \/ AllItems(SubSeq(t, ItemEnd(t) + 2, Len(t)))

RECURSIVE ExpectedMixed(_, _)
\* t with every item replaced by what the claim expects, spaces kept.
ExpectedMixed(t, F) ==
    ExpectedItem(SubSeq(t, 1, ItemEnd(t)), F)
    \o (IF ItemEnd(t) = Len(t) THEN << >>
        ELSE <<" ">> \o ExpectedMixed(SubSeq(t, ItemEnd(t) + 2, Len(t)), F))

Replacement(key, index, F) ==
    IF F \in ValidFormats THEN FieldOf(emojiMappings[index[key]], F) ELSE key

RECURSIVE AfterShortcodes(_, _, _)
\* t[i..] with every shortcode match that is a key of the shortcode index
\* replaced.
AfterShortcodes(t, F, i) ==
    IF i > Len(t) THEN << >>
    ELSE IF t[i] = ":" /\ \E j \in At(t, ":") : IsShortcodeMatch(t, i, j)
    THEN LET j   == CHOOSE j \in At(t, ":") : IsShortcodeMatch(t, i, j)
             key == SubSeq(t, i, j)
         IN  (IF key \in DOMAIN shortcodeToName
              THEN Replacement(key, shortcodeToName, F) ELSE key)
             \o AfterShortcodes(t, F, j + 1)
    ELSE <<t[i]>> \o AfterShortcodes(t, F, i + 1)

RECURSIVE AfterEntities(_, _, _)
\* t[i..] with every maximal entity run that is a key of the HTML index
\* replaced.
AfterEntities(t, F, i) ==
    IF i > Len(t) THEN << >>
    ELSE IF t[i] = "&" /\ \E j \in At(t, ";") : IsMaximalRun(t, i, j)
    THEN LET j   == CHOOSE j \in At(t, ";") : IsMaximalRun(t, i, j)
             key == SubSeq(t, i, j)
         IN  (IF key \in DOMAIN htmlToName
              THEN Replacement(key, htmlToName, F) ELSE key)
             \o AfterEntities(t, F, j + 1)
    ELSE <<t[i]>> \o AfterEntities(t, F, i + 1)

\* C17: TransformText is the literal pass, then the shortcode pass on what
\* the literal pass returned, then the HTML pass on what the shortcode pass
\* returned: the shortcode matches and the entity runs that are replaced
\* are those of the text the pass before has written, not those of the
\* text as given.
C17_PassesInSequence ==
    Returned("TransformText") =>
        /\ ret.shortcodes = AfterShortcodes(ret.literal, call.format, 1)
        /\ ret.value = AfterEntities(ret.shortcodes, call.format, 1)

\* The HTML pass replaced a run that is a key and that is no run of the
\* text as given: the shortcode pass wrote a part of it.
C17_Witness ==
    /\ Returned("TransformText")
    /\ call.format \in ValidFormats
    /\ LET written == ret.shortcodes
       IN  /\ written # ret.literal
           /\ \E m \in MaximalRuns(written) :
               /\ Sub(written, m) \in DOMAIN htmlToName
               /\ \A o \in MaximalRuns(call.input) :
                      Sub(call.input, o) # Sub(written, m)

\* C18: for every text and every valid format, the text the literal loop
\* leaves, and so the text TransformText returns, is the same in whatever
\* order the loop visits the characters of the catalog, also when one
\* catalog character is a part of another.
C18_OrderIndependent ==
    (Returned("TransformText") /\ call.format \in ValidFormats) =>
        \A other \in Orders(DOMAIN emojiToName) :
            /\ LiteralPass(call.input, call.format, other) = ret.literal
            /\ TransformText(call.input, call.format, other) = ret.value

\* s holds a key of the shortcode index that has a character other than a
\* letter or an underscore between its colons.
HoldsOtherShortcode(s) ==
    \E k \in DOMAIN shortcodeToName :
        Contains(s, k) /\ ~ ShortcodeShaped(k, 1, Len(k))

\* C19: the shortcode pass replaces nothing but matches of colon, letters
\* or underscores, colon: when no such match of its text is a key of the
\* shortcode index it leaves the text as it is, so a key with a digit
\* between the colons given to TransformText comes back verbatim, although
\* Transform given that key alone returns field F of its record.
C19_LettersOnlyShortcodes ==
    (Returned("TransformText") /\ call.format \in ValidFormats) =>
        /\ (\A m \in ShortcodeMatches(ret.literal) :
                Sub(ret.literal, m) \notin DOMAIN shortcodeToName)
               => ret.shortcodes = ret.literal
        /\ (/\ call.input \in DOMAIN shortcodeToName
            /\ ~ ShortcodeShaped(call.input, 1, Len(call.input)))
               => ret.value = call.input
        /\ \A k \in DOMAIN shortcodeToName :
               Transform(k, call.format) =
                   [value |-> FieldOf(emojiMappings[shortcodeToName[k]],
                                      call.format),
                    err |-> ErrNil]

\* The shortcode pass left a text as it was that holds a key with a digit
\* and a match that is no key.
C19_Witness ==
    /\ Returned("TransformText")
    /\ call.format \in ValidFormats
    /\ HoldsOtherShortcode(ret.literal)
    /\ ShortcodeMatches(ret.literal) # {}
    /\ \A m \in ShortcodeMatches(ret.literal) :
           Sub(ret.literal, m) \notin DOMAIN shortcodeToName
    /\ ret.shortcodes = ret.literal

\* C20: the HTML pass looks each maximal run of entities up as one key: a
\* text that is one run and a key is replaced by field F of the record of
\* that key, and when no maximal run of its text is a key the pass leaves
\* the text as it is, also when an entity or a prefix of a run is a key.
C20_WholeRunIsKey ==
    (Returned("TransformText") /\ call.format \in ValidFormats) =>
        /\ (\A m \in MaximalRuns(ret.shortcodes) :
                Sub(ret.shortcodes, m) \notin DOMAIN htmlToName)
               => ret.value = ret.shortcodes
        /\ (/\ MaximalRuns(call.input) = {<<1, Len(call.input)>>}
            /\ call.input \in DOMAIN htmlToName)
               => ret.value = FieldOf(emojiMappings[htmlToName[call.input]],
                                      call.format)

\* The HTML pass left a run as it was that is no key and whose first
\* entity is a key.
C20_Witness ==
    /\ Returned("TransformText")
    /\ call.format \in ValidFormats
    /\ \E m \in MaximalRuns(ret.shortcodes) :
        /\ Sub(ret.shortcodes, m) \notin DOMAIN htmlToName
        /\ \E k \in m[1]..m[2] :
            /\ IsEntity(ret.shortcodes, m[1], k)
            /\ SubSeq(ret.shortcodes, m[1], k) \in DOMAIN htmlToName
    /\ \A m \in MaximalRuns(ret.shortcodes) :
           Sub(ret.shortcodes, m) \notin DOMAIN htmlToName
    /\ ret.value = ret.shortcodes

\* The keys of the escape index that occur in the text t.
EscapesIn(t) == {k \in DOMAIN unicodeToName : k # << >> /\ Contains(t, k)}

\* C21: a text whose only emoji representations are escape sequences that
\* are keys of the escape index is returned unchanged by TransformText for
\* every target format, although Transform and GetEmojiInfo resolve each of
\* those escape sequences when it is given alone.
C21_EscapesNotDetected ==
    (/\ Returned("TransformText")
     /\ EscapesIn(call.input) # {}
     /\ NothingRecognized(call.input)) =>
        /\ ret.value = call.input
        /\ \A k \in EscapesIn(call.input) :
            /\ findEmojiName(k) = unicodeToName[k]
            /\ GetEmojiInfo(k) =
                   [isNil |-> FALSE, mapping |-> emojiMappings[unicodeToName[k]],
                    err |-> ErrNil]
            /\ \A F \in ValidFormats :
                   Transform(k, F) =
                       [value |-> FieldOf(emojiMappings[unicodeToName[k]], F),
                        err |-> ErrNil]

\* A text that holds an escape key and something else was returned as it
\* was for a valid format.
C21_Witness ==
    /\ Returned("TransformText")
    /\ call.format \in ValidFormats
    /\ NothingRecognized(call.input)
    /\ \E k \in EscapesIn(call.input) : k # call.input
    /\ call.input \in EscapesIn(call.input) \/ Contains(call.input, <<" ">>)
    /\ ret.value = call.input

\* The keys the claim gives a record in the HTML index: its HTML and, when
\* the HTML ends with the variation-selector entity, the HTML without that
\* trailing entity and the same followed by the literal selector.
TrailingHtmlKeys(record) ==
    IF HasSuffix(record.HTML, VsEntity)
    THEN LET base == DropLast(record.HTML, Len(VsEntity))
         IN  {record.HTML, base, base \o VsLiteral}
    ELSE {record.HTML}

\* The keys the claim gives a record in the escape index.
TrailingEscapeKeys(record) ==
    IF HasSuffix(record.Unicode, VsEscape)
    THEN {record.Unicode, DropLast(record.Unicode, Len(VsEscape))}
    ELSE {record.Unicode}

\* C22: once init() is through, the keys of the HTML index are the HTML of
\* every record and, for a record whose HTML ends with the
\* variation-selector entity, that HTML with the trailing entity removed
\* and the same followed by the literal selector; the keys of the escape
\* index are the escapes and the escapes with the trailing selector escape
\* removed; also when the selector occurs more than once in the field.
C22_TrailingSelectorKeys ==
    pending = {} =>
        /\ DOMAIN htmlToName =
               UNION {TrailingHtmlKeys(emojiMappings[n]) : n \in DOMAIN emojiMappings}
        /\ DOMAIN unicodeToName =
               UNION {TrailingEscapeKeys(emojiMappings[n]) : n \in DOMAIN emojiMappings}

\* C23: once init() is through, the HTML index maps the HTML of every
\* record to that record's name and the escape index maps its escape to
\* that record's name, also when a key derived from another record is the
\* same string, and in whatever order init() visited the catalog.
C23_CanonicalKeysKept ==
    pending = {} =>
        \A n \in DOMAIN emojiMappings :
            /\ htmlToName[emojiMappings[n].HTML] = n
            /\ unicodeToName[emojiMappings[n].Unicode] = n

RECURSIVE Built(_, _)
\* The four indices after the loop body of init() has run for the names
\* of order, one after the other, starting from the indices idx.
Built(order, idx) ==
    IF order = << >> THEN idx
    ELSE LET name    == Head(order)
             mapping == emojiMappings[name]
         IN  Built(Tail(order),
                   <<MapPut(idx[1], mapping.Emoji, name),
                     MapPut(idx[2], mapping.Shortcode, name),
                     HtmlEntry(idx[3], name, mapping),
                     UnicodeEntry(idx[4], name, mapping)>>)

\* C24: once init() is through, the four indices are those that any order
\* of visiting the catalog builds: two orders never give different
\* indices, also when two records yield the same derived key.
C24_ConstructionDeterministic ==
    pending = {} =>
        \A order \in Orders(DOMAIN emojiMappings) :
            indices = Built(order, <<EmptyMap, EmptyMap, EmptyMap, EmptyMap>>)

\* What GetEmojiInfo returns for the record of name n.
InfoOf(n) == [isNil |-> FALSE, mapping |-> emojiMappings[n], err |-> ErrNil]

\* What GetEmojiInfo returns when the steps after the hybrid normalization
\* decide: the escape index, the colon-wrapped shortcode, not found.
InfoOfLaterSteps(in) ==
    IF in \in DOMAIN unicodeToName THEN InfoOf(unicodeToName[in])
    ELSE IF WrapColons(in) \in DOMAIN shortcodeToName
    THEN InfoOf(shortcodeToName[WrapColons(in)])
    ELSE [isNil |-> TRUE, mapping |-> ZeroMapping, err |-> ErrInfoNotFound]

\* The trimmed input with its trailing literal selector written as the
\* entity.
TrailingRewritten(in) == DropLast(in, Len(VsLiteral)) \o VsEntity

\* The hybrid normalization, as the claim states it, resolves the trimmed
\* input: it begins with an entity, ends with the literal selector, and
\* the rewritten string is a key of the HTML index.
HybridResolves(in) ==
    /\ \E k \in Pos(in) : IsEntity(in, 1, k)
    /\ HasSuffix(in, VsLiteral)
    /\ TrailingRewritten(in) \in DOMAIN htmlToName

\* C25: when the trimmed input matches none of the steps 1 to 4, begins
\* with an entity and ends with a literal selector, the resolver rewrites
\* that trailing literal, and only it, to the entity and answers with the
\* HTML-index entry of the rewritten string if there is one; otherwise the
\* later steps decide as if the step were not there.
C25_TrailingLiteralRewritten ==
    Returned("GetEmojiInfo") =>
        LET in == TrimSpace(call.input)
        IN  (\A k \in 1..4 : ~ StepHit(k, in)) =>
                [isNil |-> ret.isNil, mapping |-> ret.mapping, err |-> ret.err] =
                    IF HybridResolves(in)
                    THEN InfoOf(htmlToName[TrailingRewritten(in)])
                    ELSE InfoOfLaterSteps(in)

\* C26: no call of Transform, TransformText, GetEmojiInfo,
\* GetSupportedEmojis or IsSupported by any thread, in any interleaving
\* with the calls of the other threads, and no write of a caller to a
\* record GetEmojiInfo gave it, changes the catalog, nor any index once
\* init() is through.
C26_ReadOnlyAfterInit ==
    [][/\ emojiMappings' = emojiMappings
       /\ pending = {} => indices' = indices]_vars

\* Two threads hold the record of the same input; one of them has written
\* to its record, the other holds the record of the catalog.
C26_Witness ==
    \E t, u \in Threads :
        /\ call[t].op = "GetEmojiInfo" /\ call[u].op = "GetEmojiInfo"
        /\ call[t].input = call[u].input
        /\ ~ ret[t].isNil
        /\ ret[t].mapping.Emoji = Scribble
        /\ ret[u].mapping = emojiMappings[findEmojiName(call[u].input)]
        /\ ret[u].mapping.Emoji # Scribble

\* The pairs <<h, i>> of the text t such that t[h..i] is a shortcode match
\* and t[i..] is, to the end of t, a key of the shortcode index that opens
\* with the colon the match closes with.
ColonTaken(t) ==
    {m \in ShortcodeMatches(t) :
        /\ ShortcodeShaped(t, m[2], Len(t))
        /\ SubSeq(t, m[2], Len(t)) \in DOMAIN shortcodeToName}

\* C27: the shortcode matches are taken from the left and do not overlap:
\* when the colon that would open a shortcode key at the end of the text
\* closes the match before it, the key is not converted, its letters and
\* closing colon stay at the end of the text; and when that match starts
\* the text and is no key, as in ":x:a:", the whole text stays as it is.
C27_ClosingColonNotReused ==
    (Returned("TransformText") /\ call.format \in ValidFormats) =>
        \A m \in ColonTaken(ret.literal) :
            /\ HasSuffix(ret.shortcodes,
                         SubSeq(ret.literal, m[2] + 1, Len(ret.literal)))
            /\ (m[1] = 1 /\ Sub(ret.literal, m) \notin DOMAIN shortcodeToName)
                   => ret.shortcodes = ret.literal

\* The text ":c:a:" went through the shortcode pass for a format other
\* than shortcode, ":a:" being a key and ":c:" none.
C27_Witness ==
    /\ Returned("TransformText")
    /\ call.format \in ValidFormats \ {FormatShortcode}
    /\ \E m \in ColonTaken(ret.literal) :
        /\ m[1] = 1
        /\ Sub(ret.literal, m) \notin DOMAIN shortcodeToName
    /\ ret.value = call.input

\* The records whose HTML is the text t with its trailing literal selector
\* written as the entity: t is the hybrid form of these records.
HybridOf(t) ==
    {n \in DOMAIN emojiMappings :
        /\ HasSuffix(t, VsLiteral)
        /\ emojiMappings[n].HTML = TrailingRewritten(t)}

\* C28: for a record with HTML X&#xfe0f; and every valid format F,
\* TransformText given X followed by the literal selector returns what
\* Transform returns for that same string, followed by one more literal
\* selector.
C28_HybridTextVsTransform ==
    (/\ Returned("TransformText")
     /\ call.format \in ValidFormats
     /\ HybridOf(call.input) # {}) =>
        ret.value = Transform(call.input, call.format).value \o VsLiteral

\* C28, amended: when the literal selector alone is no catalog character,
\* TransformText given X followed by the literal selector returns what
\* Transform returns for X alone, that is field F of the record the HTML
\* index holds for the key X, followed by the literal selector; this is
\* what Transform returns for X with the literal selector, followed by the
\* selector, when the HTML index holds the hybrid's own record for X.
C28_HybridRunThenLiteral ==
    (/\ Returned("TransformText")
     /\ call.format \in ValidFormats
     /\ HybridOf(call.input) # {}
     /\ VsLiteral \notin DOMAIN emojiToName) =>
        LET X == DropLast(call.input, Len(VsLiteral))
        IN  /\ Transform(X, call.format) =
                   [value |-> FieldOf(emojiMappings[htmlToName[X]], call.format),
                    err |-> ErrNil]
            /\ ret.value = Transform(X, call.format).value \o VsLiteral
            /\ htmlToName[X] \in HybridOf(call.input) =>
                   ret.value =
                       Transform(call.input, call.format).value \o VsLiteral

\* The hybrid form of a record was given to TransformText in a catalog
\* where X is the HTML of another record as well.
C28_Witness ==
    /\ Returned("TransformText")
    /\ call.format \in ValidFormats
    /\ HybridOf(call.input) # {}
    /\ VsLiteral \notin DOMAIN emojiToName
    /\ Cardinality(DOMAIN emojiMappings) = 2
    /\ ret.value # call.input
    /\ HasSuffix(ret.value, VsLiteral)

\* The values an index holds.
ValuesOf(index) == {index[k] : k \in DOMAIN index}

\* C29: in every state during and after the construction of the indices,
\* every value of the character, shortcode, HTML and escape indices is a
\* catalog name; hence a name the resolver returns is in the catalog,
\* Transform never returns "emoji mapping not found", and GetEmojiInfo
\* never returns the zero record with a nil error.
C29_IndexValuesAreNames ==
    /\ ValuesOf(emojiToName) \subseteq DOMAIN emojiMappings
    /\ ValuesOf(shortcodeToName) \subseteq DOMAIN emojiMappings
    /\ ValuesOf(htmlToName) \subseteq DOMAIN emojiMappings
    /\ ValuesOf(unicodeToName) \subseteq DOMAIN emojiMappings
    /\ Returned("Transform") => ret.err # ErrMappingNotFound
    /\ (Returned("GetEmojiInfo") /\ ret.err = ErrNil) =>
           /\ findEmojiName(call.input) \in DOMAIN emojiMappings
           /\ ret.mapping = emojiMappings[findEmojiName(call.input)]
           /\ ret.mapping # ZeroMapping

\* GetEmojiInfo resolved an input through the HTML index and returned the
\* record.
C29_Witness ==
    /\ Returned("GetEmojiInfo")
    /\ ret.err = ErrNil
    /\ findEmojiStep(call.input).step = 4
    /\ ~ret.isNil

\* findEmojiName with the hybrid-normalization step (step 5) removed.
findEmojiNameNoStep5(input) ==
    LET in == TrimSpace(input)
    IN  IF in \in DOMAIN emojiMappings THEN in
        ELSE IF in \in DOMAIN emojiToName THEN emojiToName[in]
        ELSE IF in \in DOMAIN shortcodeToName THEN shortcodeToName[in]
        ELSE IF in \in DOMAIN htmlToName THEN htmlToName[in]
        ELSE IF in \in DOMAIN unicodeToName THEN unicodeToName[in]
        ELSE IF WrapColons(in) \in DOMAIN shortcodeToName
            THEN shortcodeToName[WrapColons(in)]
        ELSE << >>

\* s holds p at most once.
AtMostOnce(s, p) ==
    LET i == Index(s, p)
    IN  i = 0 \/ ~Contains(SubSeq(s, i + Len(p), Len(s)), p)

\* Every HTML field of the catalog holds the selector entity at most once
\* and holds no literal selector.
SingleSelectorCatalog ==
    \A n \in DOMAIN emojiMappings :
        /\ AtMostOnce(emojiMappings[n].HTML, VsEntity)
        /\ ~Contains(emojiMappings[n].HTML, VsLiteral)

\* The operations that resolve their input.
Resolving == {"Transform", "GetEmojiInfo", "IsSupported"}

\* C30: in a catalog whose HTML fields hold the selector entity at most
\* once and no literal selector, the resolver without its step 5 returns,
\* for every input, the name (or none) the resolver with step 5 returns.
C30_Step5Redundant ==
    (call.op \in Resolving /\ SingleSelectorCatalog) =>
        findEmojiNameNoStep5(call.input) = findEmojiName(call.input)

\* An input that meets the condition of step 5 was resolved in such a
\* catalog, to a record whose HTML holds the selector entity.
C30_Witness ==
    /\ call.op \in Resolving
    /\ SingleSelectorCatalog
    /\ Contains(TrimSpace(call.input), EntityPrefix)
    /\ HasSuffix(TrimSpace(call.input), VsLiteral)
    /\ findEmojiName(call.input) # << >>
    /\ Contains(emojiMappings[findEmojiName(call.input)].HTML, VsEntity)

====
